---- MODULE Spec2Model ----
(***************************************************************************)
(* Report orchestrator: the idempotency broker in front of job creation    *)
(* (IdempotencyService.findOrCreateReport, ReportsService.create) and the  *)
(* worker engine (ReportWorkerService) that claims, executes, converges    *)
(* and recovers jobs through the relational store.                         *)
(*                                                                         *)
(* The store is three tables; `reports` and `report_artifacts` are state.  *)
(* Every awaited store call of a handler is one atomic step, so that the   *)
(* steps of concurrent workers and requests interleave as the awaits of    *)
(* the code do.                                                            *)
(*                                                                         *)
(* Instants are kept relative to the current instant: Now is 0, an instant *)
(* in the past is negative, and the passing of time (Tick) moves every     *)
(* stored locked_at one step into the past.  Instants older than Oldest    *)
(* compare like Oldest against every threshold the code computes, so they  *)
(* are stored as Oldest.  created_at is used by the code only to order     *)
(* rows; it is kept as a rank.                                             *)
(***************************************************************************)
EXTENDS Integers, Sequences, FiniteSets, TLC

(* ------------------------------ bounds --------------------------------- *)
\* rows the reports table can hold
MaxReports == 2
\* submissions (POST /reports) issued over a run
MaxRequests == 2
\* calls of processNextJob over a run
MaxTicks == 3
\* calls of start() and stop() on one worker over a run
MaxCalls == 3

(* ------------------------- program constants --------------------------- *)
\* WORKER_MAX_ATTEMPTS default
maxAttempts == 3
\* WORKER_STALE_LOCK_TIMEOUT_MS default
staleLockTimeoutMs == 300000

\* worker instance ids (WORKER_INSTANCE_ID), one per worker process
Workers == {"w1", "w2"}
\* Idempotency-Key header values, in the order a run first uses them
KeySeq == <<"K1", "K2">>
Keys == { KeySeq[i] : i \in 1..Len(KeySeq) }
\* request bodies (tenantId, type, params), in the order a run first uses them
DtoSeq ==
  << [tenantId |-> "t1", type |-> "USAGE_SUMMARY", params |-> "CSV"],
     [tenantId |-> "t1", type |-> "BILLING_EXPORT", params |-> "JSON"] >>
Dtos == { DtoSeq[i] : i \in 1..Len(DtoSeq) }

\* an absent (null / undefined) value, and a present one
Null == <<>>
Some(v) == <<v>>
Val(o) == o[1]

\* Date.now(), the origin of the relative time axis
Now == 0
\* the step by which Tick lets time pass
TickMs == staleLockTimeoutMs
\* the oldest instant that is told apart from older ones
Oldest == Now - 2 * TickMs

VARIABLES
  reports,     \* table reports: sequence of rows, the id of a row is its index
  artifacts,   \* table report_artifacts: sequence of rows
  pc,          \* per worker: the await it stands at inside processNextJob
  report,      \* per worker: the value claimNextJob returned (id, attempts)
  ticks,       \* number of processNextJob calls so far
  requests,    \* submissions: inputs, position, locals, the branch that
               \* resolved the job (via) and the response
  svc          \* per worker: the fields of the ReportWorkerService object
               \* (isRunning, pollInterval), the timers and calls it set off,
               \* and, where claims are counted, the jobs it claimed

vars == <<reports, artifacts, pc, report, ticks, requests, svc>>

ReportIds == 1..Len(reports)

(* ------------------------------ the store ------------------------------ *)

\* report_artifacts rows of one job
ArtifactsOf(id) == { i \in 1..Len(artifacts) : artifacts[i].reportId = id }

\* UNIQUE INDEX report_artifacts_report_id_key, variant without the index
NoArtifactIndex(arts, id) == FALSE

\* UNIQUE INDEX report_artifacts_report_id_key: an insert for id collides
ArtifactUniqueViolation(arts, id) ==
  \E i \in 1..Len(arts) : arts[i].reportId = id

\* row lock of SELECT ... FOR UPDATE: held by a claim transaction that has
\* selected the row and not yet committed
RowLockedBy(id) ==
  { w \in Workers : pc[w] = "claimUpdate" /\ report[w].id = id }

\* variant: the select takes no row lock
NeverLocked(id, w) == FALSE

\* the row is locked by a transaction other than w's
LockedByOther(id, w) == RowLockedBy(id) \ {w} # {}

(* ----------------------------- the worker ------------------------------ *)

\* recoverStaleLocks / claimNextJob: new Date(Date.now() - staleLockTimeoutMs)
staleThreshold == Now - staleLockTimeoutMs

\* variant: recovery clears locked_at only
RecoverDataKeepsOwner(r) ==
  [r EXCEPT !.status = "PENDING", !.lockedAt = Null]

\* variant: recovery renews the lease instead of releasing the job
RecoverDataRenews(r) == [r EXCEPT !.lockedAt = Some(Now)]

\* recoverStaleLocks: data of the updateMany
RecoverData(r) ==
  [r EXCEPT !.status = "PENDING", !.lockedAt = Null, !.lockedBy = Null]

\* variant: recovery resets every RUNNING job, whatever the age of its lease
IsRunningAnyAge(r) == r.status = "RUNNING"

\* recoverStaleLocks: where of the updateMany
IsStaleRunning(r) ==
  /\ r.status = "RUNNING"
  /\ r.lockedAt # Null
  /\ Val(r.lockedAt) < staleThreshold

\* variant: the claim query does not look at status
EligibleAnyStatus(r) ==
  r.lockedAt = Null \/ Val(r.lockedAt) < staleThreshold

\* claimNextJob: WHERE of the candidate query
Eligible(r) ==
  /\ r.status = "PENDING"
  /\ (r.lockedAt = Null \/ Val(r.lockedAt) < staleThreshold)

\* claimNextJob: rows the candidate query of worker w can return
\* (WHERE ..., FOR UPDATE SKIP LOCKED)
Candidates(w) ==
  { id \in ReportIds : Eligible(reports[id]) /\ ~LockedByOther(id, w) }

\* claimNextJob: ORDER BY created_at ASC LIMIT 1 (any of the oldest on a tie)
OldestCandidates(w) ==
  { id \in Candidates(w) :
      \A o \in Candidates(w) : reports[id].createdAt <= reports[o].createdAt }

\* claimNextJob: data of the update inside the transaction
ClaimData(r, w) ==
  [r EXCEPT !.status = "RUNNING", !.lockedAt = Some(Now), !.lockedBy = Some(w)]

\* variant: completion leaves the lease owner in place
CompletedDataKeepsOwner(r, attempts) ==
  [r EXCEPT !.status = "COMPLETED", !.attempts = attempts + 1,
            !.lockedAt = Null]

\* processNextJob, success: data of the update after the artifact insert
CompletedData(r, attempts) ==
  [r EXCEPT !.status = "COMPLETED", !.attempts = attempts + 1,
            !.lockedAt = Null, !.lockedBy = Null]

\* variant: convergence puts the job back in the queue
ConvergedDataRequeues(r) ==
  [r EXCEPT !.status = "PENDING", !.lockedAt = Null, !.lockedBy = Null]

\* variant: convergence counts the attempt
ConvergedDataCounts(r) ==
  [r EXCEPT !.status = "COMPLETED", !.attempts = @ + 1,
            !.lockedAt = Null, !.lockedBy = Null]

\* processNextJob, artifact already exists: data of the update
ConvergedData(r) ==
  [r EXCEPT !.status = "COMPLETED", !.lockedAt = Null, !.lockedBy = Null]

\* variant: the failure path never retries
FailedDataNoRetry(r, attempts) ==
  [r EXCEPT !.status = "FAILED", !.attempts = attempts + 1,
            !.lockedAt = Null, !.lockedBy = Null]

\* variant: the failure path retries without limit
FailedDataNeverGivesUp(r, attempts) ==
  [r EXCEPT !.status = "PENDING", !.attempts = attempts + 1,
            !.lockedAt = Null, !.lockedBy = Null]

\* processNextJob, failure path: data of the update
FailedData(r, attempts) ==
  LET newAttempts == attempts + 1
      shouldRetry == newAttempts < maxAttempts
  IN [r EXCEPT !.status = IF shouldRetry THEN "PENDING" ELSE "FAILED",
               !.attempts = newAttempts,
               !.lockedAt = Null, !.lockedBy = Null]

\* generateReport: contentType from params.format
ContentType(r) == IF r.params = "CSV" THEN "text/csv" ELSE "application/json"

\* processNextJob: the tick begins; Math.random() < 0.1 decides whether
\* recoverStaleLocks runs before the claim
StartTick(w, recover) ==
  /\ pc[w] = "idle"
  /\ pc' = [pc EXCEPT ![w] = IF recover THEN "recover" ELSE "claimSelect"]
  /\ UNCHANGED <<reports, artifacts, report, requests, svc>>

\* a call of processNextJob, counted
BeginTick(w, recover) ==
  /\ ticks < MaxTicks
  /\ ticks' = ticks + 1
  /\ StartTick(w, recover)

\* recoverStaleLocks: one updateMany
RecoverStaleLocks(w) ==
  /\ pc[w] = "recover"
  /\ reports' = [id \in ReportIds |->
                   IF IsStaleRunning(reports[id]) THEN RecoverData(reports[id])
                                                  ELSE reports[id]]
  /\ pc' = [pc EXCEPT ![w] = "claimSelect"]
  /\ UNCHANGED <<artifacts, report, ticks, requests, svc>>

\* claimNextJob: the candidate query; the row it returns stays locked until
\* the transaction commits
ClaimSelect(w) ==
  /\ pc[w] = "claimSelect"
  /\ IF Candidates(w) = {}
       THEN /\ pc' = [pc EXCEPT ![w] = "idle"]
            /\ report' = [report EXCEPT ![w] = Null]
       ELSE \E id \in OldestCandidates(w) :
              /\ pc' = [pc EXCEPT ![w] = "claimUpdate"]
              /\ report' = [report EXCEPT ![w] =
                              [id |-> id, attempts |-> reports[id].attempts]]
  /\ UNCHANGED <<reports, artifacts, ticks, requests, svc>>

\* claimNextJob: the update and the commit
ClaimUpdate(w) ==
  /\ pc[w] = "claimUpdate"
  /\ reports' = [reports EXCEPT ![report[w].id] = ClaimData(@, w)]
  /\ pc' = [pc EXCEPT ![w] = "createExecution"]
  /\ UNCHANGED <<artifacts, report, ticks, requests, svc>>

\* processNextJob: reportExecution.create (the audit row is read by no
\* operation of the service)
CreateExecution(w) ==
  /\ pc[w] = "createExecution"
  /\ pc' = [pc EXCEPT ![w] = "generate"]
  /\ UNCHANGED <<reports, artifacts, report, ticks, requests, svc>>

\* processNextJob: generateReport returns the artifact or throws
GenerateReport(w, ok) ==
  /\ pc[w] = "generate"
  /\ pc' = [pc EXCEPT ![w] = IF ok THEN "insertArtifact" ELSE "failUpdate"]
  /\ UNCHANGED <<reports, artifacts, report, ticks, requests, svc>>

\* variant: the insert replaces the artifact row the job has
InsertArtifactReplaces(w) ==
  /\ pc[w] = "insertArtifact"
  /\ IF ArtifactUniqueViolation(artifacts, report[w].id)
       THEN /\ pc' = [pc EXCEPT ![w] = "converge"]
            /\ artifacts' = [i \in 1..Len(artifacts) |->
                 IF artifacts[i].reportId = report[w].id
                   THEN [artifacts[i] EXCEPT !.content = w]
                   ELSE artifacts[i]]
       ELSE /\ artifacts' = Append(artifacts,
                 [reportId |-> report[w].id,
                  contentType |-> ContentType(reports[report[w].id]),
                  content |-> w])
            /\ pc' = [pc EXCEPT ![w] = "markCompleted"]
  /\ UNCHANGED <<reports, report, ticks, requests, svc>>

\* processNextJob: reportArtifact.create; P2002 on report_id leads to the
\* convergence branch
InsertArtifact(w) ==
  /\ pc[w] = "insertArtifact"
  /\ IF ArtifactUniqueViolation(artifacts, report[w].id)
       THEN /\ pc' = [pc EXCEPT ![w] = "converge"]
            /\ UNCHANGED artifacts
       ELSE /\ artifacts' = Append(artifacts,
                 [reportId |-> report[w].id,
                  contentType |-> ContentType(reports[report[w].id]),
                  content |-> w])
            /\ pc' = [pc EXCEPT ![w] = "markCompleted"]
  /\ UNCHANGED <<reports, report, ticks, requests, svc>>

\* processNextJob: report.update where id, after the artifact insert
MarkCompleted(w) ==
  /\ pc[w] = "markCompleted"
  /\ ~LockedByOther(report[w].id, w)
  /\ reports' = [reports EXCEPT ![report[w].id] =
                   CompletedData(@, report[w].attempts)]
  /\ pc' = [pc EXCEPT ![w] = "closeExecution"]
  /\ UNCHANGED <<artifacts, report, ticks, requests, svc>>

\* processNextJob: report.update where id, artifact already exists
Converge(w) ==
  /\ pc[w] = "converge"
  /\ ~LockedByOther(report[w].id, w)
  /\ reports' = [reports EXCEPT ![report[w].id] = ConvergedData(@)]
  /\ pc' = [pc EXCEPT ![w] = "closeExecution"]
  /\ UNCHANGED <<artifacts, report, ticks, requests, svc>>

\* processNextJob: report.update where id, failure path
FailUpdate(w) ==
  /\ pc[w] = "failUpdate"
  /\ ~LockedByOther(report[w].id, w)
  /\ reports' = [reports EXCEPT ![report[w].id] =
                   FailedData(@, report[w].attempts)]
  /\ pc' = [pc EXCEPT ![w] = "closeExecution"]
  /\ UNCHANGED <<artifacts, report, ticks, requests, svc>>

\* processNextJob: reportExecution.update (finishedAt, error), the tick ends
CloseExecution(w) ==
  /\ pc[w] = "closeExecution"
  /\ pc' = [pc EXCEPT ![w] = "idle"]
  /\ report' = [report EXCEPT ![w] = Null]
  /\ UNCHANGED <<reports, artifacts, ticks, requests, svc>>

\* the worker process dies inside a tick and a new process takes its place;
\* an open claim transaction is rolled back
Crash(w) ==
  /\ pc[w] # "idle"
  /\ pc' = [pc EXCEPT ![w] = "idle"]
  /\ report' = [report EXCEPT ![w] = Null]
  /\ UNCHANGED <<reports, artifacts, ticks, requests, svc>>

\* time passes by TickMs
Tick ==
  /\ reports' = [id \in ReportIds |->
       IF reports[id].lockedAt = Null THEN reports[id]
       ELSE [reports[id] EXCEPT !.lockedAt =
               Some(IF Val(@) - TickMs < Oldest THEN Oldest ELSE Val(@) - TickMs)]]
  /\ reports' # reports
  /\ UNCHANGED <<artifacts, pc, report, ticks, requests, svc>>

(* --------------------------- the submissions --------------------------- *)

RequestIds == 1..Len(requests)

\* mapToResponseDto: the fields of a row the response carries
mapToResponseDto(id) ==
  [id |-> id,
   tenantId |-> reports[id].tenantId,
   type |-> reports[id].type,
   params |-> reports[id].params,
   status |-> reports[id].status,
   idempotencyKey |-> reports[id].idempotencyKey]

\* the request body a response shows
DtoOf(res) == [tenantId |-> res.tenantId, type |-> res.type, params |-> res.params]

\* rows carrying idempotency key k
RowsWithKey(k) == { id \in ReportIds : reports[id].idempotencyKey = Some(k) }

\* UNIQUE INDEX reports_idempotency_key_key, variant without the index
NoKeyIndex(id, k) == FALSE

\* UNIQUE INDEX reports_idempotency_key_key: setting k on row id collides
KeyUniqueViolation(id, k) == RowsWithKey(k) \ {id} # {}

\* variant: the semantic lookup sees RUNNING jobs only
SemanticMatchesRunningOnly(dto) ==
  { id \in ReportIds :
      /\ reports[id].tenantId = dto.tenantId
      /\ reports[id].type = dto.type
      /\ reports[id].params = dto.params
      /\ reports[id].status = "RUNNING" }

\* variant: the semantic lookup sees jobs of every status
SemanticMatchesAnyStatus(dto) ==
  { id \in ReportIds :
      /\ reports[id].tenantId = dto.tenantId
      /\ reports[id].type = dto.type
      /\ reports[id].params = dto.params }

\* findExistingSemanticReport: WHERE of the raw query
SemanticMatches(dto) ==
  { id \in ReportIds :
      /\ reports[id].tenantId = dto.tenantId
      /\ reports[id].type = dto.type
      /\ reports[id].params = dto.params
      /\ reports[id].status \in {"COMPLETED", "RUNNING"} }

\* findExistingSemanticReport: CASE status WHEN 'COMPLETED' THEN 1 WHEN 'RUNNING' THEN 2
StatusRank(status) == IF status = "COMPLETED" THEN 1 ELSE 2

\* variant: the lookup orders by created_at ASC within a status
SemanticBeforeOldestFirst(a, b) ==
  \/ StatusRank(reports[a].status) < StatusRank(reports[b].status)
  \/ /\ StatusRank(reports[a].status) = StatusRank(reports[b].status)
     /\ reports[a].createdAt <= reports[b].createdAt

\* findExistingSemanticReport: ORDER BY status rank, created_at DESC
SemanticBefore(a, b) ==
  \/ StatusRank(reports[a].status) < StatusRank(reports[b].status)
  \/ /\ StatusRank(reports[a].status) = StatusRank(reports[b].status)
     /\ reports[a].createdAt >= reports[b].createdAt

\* findExistingSemanticReport: LIMIT 1 (any of the first on a tie)
SemanticFirst(dto) ==
  { id \in SemanticMatches(dto) :
      \A o \in SemanticMatches(dto) : SemanticBefore(id, o) }

\* created_at of a new row: the instant of the newest row, or a later one
NewCreatedAt ==
  IF reports = <<>> THEN {1}
  ELSE LET newest == CHOOSE c \in { reports[id].createdAt : id \in ReportIds } :
                       \A id \in ReportIds : reports[id].createdAt <= c
       IN {newest, newest + 1}

\* findOrCreateReport, final return: created is read off the status
Respond(res, created) == Some([result |-> res, created |-> created])

\* findOrCreateReport after businessCreateFn returned res: the key backfill
\* is tried when a key was sent and the job has none, else the call returns
AfterBusinessCreate(rq, res, via) ==
  IF rq.key # Null /\ res.idempotencyKey = Null
    THEN [rq EXCEPT !.pc = "backfill", !.result = Some(res), !.via = via]
    ELSE [rq EXCEPT !.pc = "done", !.existing = Null, !.via = via,
                    !.response = Respond(res, res.status = "PENDING")]

\* keys and bodies are interchangeable: a run uses them in the order of
\* KeySeq and DtoSeq, a new one only after the ones before it
FreshOrUsed(seq, used) ==
  { seq[i] : i \in { i \in 1..Len(seq) : \A j \in 1..(i - 1) : seq[j] \in used } }

\* the inputs the next submission can carry
SubmitKeys ==
  {Null} \cup { Some(k) : k \in FreshOrUsed(KeySeq,
     { k \in Keys : \/ \E r \in RequestIds : requests[r].key = Some(k)
                    \/ \E id \in ReportIds : reports[id].idempotencyKey = Some(k) }) }
SubmitDtos ==
  FreshOrUsed(DtoSeq,
     { d \in Dtos : \/ \E r \in RequestIds : requests[r].dto = d
                    \/ \E id \in ReportIds : mapToResponseDto(id).params = d.params })

\* findOrCreateReport is entered: the key lookup comes first when a key was
\* sent, else businessCreateFn
NewSubmission(key, dto) ==
  [key |-> key, dto |-> dto,
   pc |-> IF key # Null THEN "findByKey" ELSE "semanticQuery",
   existing |-> Null, result |-> Null, via |-> "none",
   response |-> Null]

\* ReportsController.create: a POST /reports arrives
Submit(key, dto) ==
  /\ Len(requests) < MaxRequests
  /\ requests' = Append(requests, NewSubmission(key, dto))
  /\ UNCHANGED <<reports, artifacts, pc, report, ticks, svc>>

\* findOrCreateReport: findReportByKey before anything else
FindByKey(r) ==
  /\ requests[r].pc = "findByKey"
  /\ LET hit == RowsWithKey(Val(requests[r].key))
     IN requests' = [requests EXCEPT ![r] =
          IF hit # {}
            THEN [@ EXCEPT !.pc = "done", !.via = "key",
                    !.response =
                      Respond(mapToResponseDto(CHOOSE id \in hit : TRUE), FALSE)]
            ELSE [@ EXCEPT !.pc = "semanticQuery"]]
  /\ UNCHANGED <<reports, artifacts, pc, report, ticks, svc>>

\* ReportsService.create: the raw query of findExistingSemanticReport
SemanticQuery(r) ==
  /\ requests[r].pc = "semanticQuery"
  /\ IF SemanticMatches(requests[r].dto) = {}
       THEN requests' = [requests EXCEPT ![r].pc = "insert"]
       ELSE \E id \in SemanticFirst(requests[r].dto) :
              requests' = [requests EXCEPT ![r].pc = "semanticFetch",
                                           ![r].existing = Some(id)]
  /\ UNCHANGED <<reports, artifacts, pc, report, ticks, svc>>

\* findExistingSemanticReport: findUnique of the row the raw query chose
SemanticFetch(r) ==
  /\ requests[r].pc = "semanticFetch"
  /\ requests' = [requests EXCEPT ![r] =
       AfterBusinessCreate(@, mapToResponseDto(Val(@.existing)), "semantic")]
  /\ UNCHANGED <<reports, artifacts, pc, report, ticks, svc>>

\* ReportsService.create: report.create of a new PENDING row
InsertReport(r) ==
  /\ requests[r].pc = "insert"
  /\ Len(reports) < MaxReports
  /\ \E c \in NewCreatedAt :
       /\ reports' = Append(reports,
            [tenantId |-> requests[r].dto.tenantId,
             type |-> requests[r].dto.type,
             params |-> requests[r].dto.params,
             status |-> "PENDING", attempts |-> 0,
             idempotencyKey |-> Null,
             lockedAt |-> Null, lockedBy |-> Null,
             createdAt |-> c])
       /\ requests' = [requests EXCEPT ![r] =
            AfterBusinessCreate(@,
              [id |-> Len(reports) + 1,
               tenantId |-> @.dto.tenantId, type |-> @.dto.type,
               params |-> @.dto.params, status |-> "PENDING",
               idempotencyKey |-> Null], "insert")]
  /\ UNCHANGED <<artifacts, pc, report, ticks, svc>>

\* findOrCreateReport: report.update where id, data idempotencyKey
Backfill(r) ==
  /\ requests[r].pc = "backfill"
  /\ LET id == Val(requests[r].result).id
         k == Val(requests[r].key)
     IN /\ RowLockedBy(id) = {}
        /\ IF KeyUniqueViolation(id, k)
             THEN /\ requests' = [requests EXCEPT ![r].pc = "rereadDup"]
                  /\ UNCHANGED reports
             ELSE /\ reports' = [reports EXCEPT ![id].idempotencyKey = Some(k)]
                  /\ requests' = [requests EXCEPT ![r].pc = "refetch"]
  /\ UNCHANGED <<artifacts, pc, report, ticks, svc>>

\* findOrCreateReport: findReportByKey after the update went through
Refetch(r) ==
  /\ requests[r].pc = "refetch"
  /\ LET hit == RowsWithKey(Val(requests[r].key))
         res == Val(requests[r].result)
     IN requests' = [requests EXCEPT ![r].pc = "done", ![r].existing = Null,
          ![r].result = Null, ![r].response =
          IF hit # {}
            THEN Respond(mapToResponseDto(CHOOSE id \in hit : TRUE),
                         res.status = "PENDING")
            ELSE Respond(res, res.status = "PENDING")]
  /\ UNCHANGED <<reports, artifacts, pc, report, ticks, svc>>

\* findOrCreateReport: findReportByKey after P2002 on idempotency_key
RereadDup(r) ==
  /\ requests[r].pc = "rereadDup"
  /\ LET hit == RowsWithKey(Val(requests[r].key))
         res == Val(requests[r].result)
     IN requests' = [requests EXCEPT ![r].pc = "done", ![r].existing = Null,
          ![r].result = Null, ![r].response =
          IF hit # {}
            THEN Respond(mapToResponseDto(CHOOSE id \in hit : TRUE), FALSE)
            ELSE Respond(res, res.status = "PENDING")]
  /\ UNCHANGED <<reports, artifacts, pc, report, ticks, svc>>

(* --------------------------- specifications ---------------------------- *)

\* a row as report.create leaves it
NewRow(dto, createdAt) ==
  [tenantId |-> dto.tenantId, type |-> dto.type, params |-> dto.params,
   status |-> "PENDING", attempts |-> 0, idempotencyKey |-> Null,
   lockedAt |-> Null, lockedBy |-> Null, createdAt |-> createdAt]

\* ReportWorkerService as constructed: not running, no poll timer; start()
\* has not been called (processNextJob is called directly, or by a timer
\* once start() has set one)
Constructed ==
  [isRunning |-> FALSE, pollInterval |-> FALSE, timers |-> 0, starting |-> 0,
   polls |-> <<>>, calls |-> 0, lastCall |-> "none", claimed |-> <<>>]

\* the workers before their first tick
WorkersIdle ==
  /\ pc = [w \in Workers |-> "idle"]
  /\ report = [w \in Workers |-> Null]
  /\ ticks = 0
  /\ svc = [w \in Workers |-> Constructed]

\* the workers over a store of jobs that were submitted without key and
\* are all still PENDING; the rows were created at one instant or one
\* after the other
InitWorkers ==
  /\ \E n \in 1..MaxReports, tie \in BOOLEAN :
       reports = [i \in 1..n |->
                    NewRow(DtoSeq[((i - 1) % Len(DtoSeq)) + 1], IF tie THEN 1 ELSE i)]
  /\ artifacts = <<>>
  /\ WorkersIdle
  /\ requests = <<>>

NextWorker ==
  \/ \E w \in Workers, recover \in BOOLEAN : BeginTick(w, recover)
  \/ \E w \in Workers : RecoverStaleLocks(w)
  \/ \E w \in Workers : ClaimSelect(w)
  \/ \E w \in Workers : ClaimUpdate(w)
  \/ \E w \in Workers : CreateExecution(w)
  \/ \E w \in Workers, ok \in BOOLEAN : GenerateReport(w, ok)
  \/ \E w \in Workers : InsertArtifact(w)
  \/ \E w \in Workers : MarkCompleted(w)
  \/ \E w \in Workers : Converge(w)
  \/ \E w \in Workers : FailUpdate(w)
  \/ \E w \in Workers : CloseExecution(w)
  \/ \E w \in Workers : Crash(w)
  \/ Tick

\* the worker engine: workers, crashes and time over submitted jobs
WorkerSpec == InitWorkers /\ [][NextWorker]_vars

\* rows that one earlier submission of the first body (without key or with
\* the first key) and the worker attempts on it can have left: still
\* PENDING, RUNNING under a lease, COMPLETED with its artifact, or FAILED
\* after maxAttempts failed attempts
LeftRows ==
  { [NewRow(DtoSeq[1], 1) EXCEPT !.idempotencyKey = key, !.status = st,
       !.attempts = CASE st = "COMPLETED" -> 1 [] st = "FAILED" -> maxAttempts
                         [] OTHER -> 0,
       !.lockedAt = IF st = "RUNNING" THEN Some(Now) ELSE Null,
       !.lockedBy = IF st = "RUNNING" THEN Some("w1") ELSE Null] :
      key \in {Null, Some(KeySeq[1])},
      st \in {"PENDING", "RUNNING", "COMPLETED", "FAILED"} }

\* the submissions over an empty store or over a store that holds one job
InitStore ==
  /\ \/ reports = <<>> /\ artifacts = <<>>
     \/ \E row \in LeftRows :
          /\ reports = <<row>>
          /\ artifacts = IF row.status = "COMPLETED"
                           THEN << [reportId |-> 1, contentType |-> ContentType(row),
                                    content |-> "w1"] >>
                           ELSE <<>>
  /\ WorkersIdle
  /\ requests = <<>>

NextRequest ==
  \/ \E key \in SubmitKeys, dto \in SubmitDtos : Submit(key, dto)
  \/ \E r \in RequestIds : FindByKey(r)
  \/ \E r \in RequestIds : SemanticQuery(r)
  \/ \E r \in RequestIds : SemanticFetch(r)
  \/ \E r \in RequestIds : InsertReport(r)
  \/ \E r \in RequestIds : Backfill(r)
  \/ \E r \in RequestIds : Refetch(r)
  \/ \E r \in RequestIds : RereadDup(r)

\* the idempotency broker: concurrent submissions over a store at rest
RequestSpec == InitStore /\ [][NextRequest]_vars

\* two workers that never crash and tick for ever over one submitted job
InitOneJob ==
  /\ reports = << NewRow(DtoSeq[1], 1) >>
  /\ artifacts = <<>>
  /\ WorkersIdle
  /\ requests = <<>>

\* the steps of worker w inside its poll loop (setInterval keeps calling
\* processNextJob)
WorkerStep(w) ==
  \/ \E recover \in BOOLEAN : StartTick(w, recover) /\ UNCHANGED ticks
  \/ RecoverStaleLocks(w)
  \/ ClaimSelect(w)
  \/ ClaimUpdate(w)
  \/ CreateExecution(w)
  \/ \E ok \in BOOLEAN : GenerateReport(w, ok)
  \/ InsertArtifact(w)
  \/ MarkCompleted(w)
  \/ Converge(w)
  \/ FailUpdate(w)
  \/ CloseExecution(w)

NextFair ==
  \/ \E w \in Workers : WorkerStep(w)
  \/ Tick

\* every worker keeps ticking, the recovery trigger of every worker fires
\* again and again, and time passes
Fairness ==
  /\ \A w \in Workers : WF_vars(WorkerStep(w))
  /\ \A w \in Workers : SF_vars(StartTick(w, TRUE) /\ UNCHANGED ticks)
  /\ WF_vars(Tick)

FairWorkerSpec == InitOneJob /\ [][NextFair]_vars /\ Fairness

(* ------------------------------ properties ----------------------------- *)

Terminal == {"COMPLETED", "FAILED"}

\* worker w has claimed job id and its attempt on it has not ended
Attempting(w, id) ==
  /\ pc[w] \in {"createExecution", "generate", "insertArtifact",
                "markCompleted", "converge", "failUpdate", "closeExecution"}
  /\ report[w].id = id

\* the step in which the claim transaction of w commits and returns job id
ClaimReturns(w, id) ==
  /\ pc[w] = "claimUpdate"
  /\ pc'[w] = "createExecution"
  /\ report[w].id = id

\* C1: in every reachable state each job id has at most one artifact row
C1_AtMostOneArtifact ==
  \A id \in ReportIds : Cardinality(ArtifactsOf(id)) <= 1

\* a worker whose artifact insert was rejected because the job has its artifact
C1_Witness ==
  \E w \in Workers :
    pc[w] = "converge" /\ Cardinality(ArtifactsOf(report[w].id)) = 1

\* C2: every COMPLETED job has exactly one artifact row and no lease fields
C2_CompletedHasArtifact ==
  \A id \in ReportIds :
    reports[id].status = "COMPLETED" =>
      /\ Cardinality(ArtifactsOf(id)) = 1
      /\ reports[id].lockedAt = Null
      /\ reports[id].lockedBy = Null

\* a job completed by the success path and one completed by convergence
C2_Witness ==
  /\ \E id \in ReportIds :
       reports[id].status = "COMPLETED" /\ reports[id].attempts = 1
  /\ \E id \in ReportIds :
       reports[id].status = "COMPLETED" /\ reports[id].attempts = 0

\* C3 (as claimed): once a job is COMPLETED or FAILED no step changes its state
C3_TerminalStays ==
  [][\A id \in ReportIds :
       reports[id].status \in Terminal =>
         reports'[id].status = reports[id].status]_vars

\* the finished submissions
Done == { r \in RequestIds : requests[r].pc = "done" }

\* the job id a finished submission returned
Returned(r) == Val(requests[r].response).result.id

\* the submissions that carried key k
WithKey(k) == { r \in RequestIds : requests[r].key = Some(k) }

\* C4 (as claimed): any two submissions that carry the same Idempotency-Key
\* return the same job id, whatever their payloads
C4_SameKeySameJob ==
  \A r1 \in Done, r2 \in Done :
    (requests[r1].key # Null /\ requests[r1].key = requests[r2].key) =>
      Returned(r1) = Returned(r2)

\* two or more finished submissions carried k, all with one payload, and k
\* was on no row when one of them looked it up
SameKeySamePayload(k) ==
  /\ Cardinality(WithKey(k)) >= 2
  /\ WithKey(k) \subseteq Done
  /\ \A r1 \in WithKey(k), r2 \in WithKey(k) : requests[r1].dto = requests[r2].dto
  /\ \E r \in WithKey(k) : requests[r].via # "key"

\* all of them return one job id, one row carries k, one reports created
OneJobOneCreated(k) ==
  /\ \A r1 \in WithKey(k), r2 \in WithKey(k) : Returned(r1) = Returned(r2)
  /\ Cardinality(RowsWithKey(k)) = 1
  /\ Cardinality({ r \in WithKey(k) : Val(requests[r].response).created }) = 1

\* no submission with the payload of the ones carrying k was answered from
\* the semantic lookup (no COMPLETED or RUNNING job with that payload)
NoSemanticHit(k) ==
  \A r \in RequestIds, g \in WithKey(k) :
    requests[r].dto = requests[g].dto => requests[r].via # "semantic"

\* C5 (as claimed): submissions with the same unused key and the same
\* payload all return the same job id, exactly one row carries the key and
\* exactly one of them reports created=true
C5_OneCreated ==
  \A k \in Keys : SameKeySamePayload(k) => OneJobOneCreated(k)

\* C5 (amended): the same, when no COMPLETED or RUNNING job with that
\* payload answers any of the submissions in the semantic lookup
C5_OneCreatedWithoutSemanticHit ==
  \A k \in Keys :
    (SameKeySamePayload(k) /\ NoSemanticHit(k)) => OneJobOneCreated(k)

\* two submissions with one key and one payload that both missed the key
\* lookup and both inserted a row
C5_Witness ==
  \E k \in Keys :
    /\ SameKeySamePayload(k)
    /\ \A r \in WithKey(k) : requests[r].via = "insert"

\* C6 (as claimed): at any moment at most one worker is inside an attempt on
\* a given job
C6_OneHolder ==
  \A id \in ReportIds : Cardinality({ w \in Workers : Attempting(w, id) }) <= 1

\* C6 (amended): a claim returns job id only when no other worker is inside
\* an attempt on id with the row still RUNNING, that is, only after the row
\* was returned to PENDING
C6_ClaimOnlyAfterRelease ==
  [][\A w \in Workers, id \in ReportIds :
       ClaimReturns(w, id) =>
         \A v \in Workers \ {w} :
           ~(Attempting(v, id) /\ reports[id].status = "RUNNING")]_vars

\* a second worker holds the job under its own lease while the first worker,
\* whose lease was reset, is still inside its attempt
C6_Witness ==
  \E id \in ReportIds, w \in Workers, v \in Workers :
    /\ w # v
    /\ Attempting(w, id) /\ pc[w] = "generate"
    /\ Attempting(v, id)
    /\ reports[id].status = "RUNNING"
    /\ reports[id].lockedBy = Some(v)

\* C7, the rows: two open claim transactions never hold the same row
C7_DistinctRows ==
  \A w \in Workers, v \in Workers :
    (w # v /\ pc[w] = "claimUpdate" /\ pc[v] = "claimUpdate") =>
      report[w].id # report[v].id

\* C7, the commit: a claim moves exactly one job, the one it selected, from
\* PENDING to RUNNING with locked_by set to the claiming worker
C7_ClaimMovesOne ==
  \A w \in Workers, id \in ReportIds :
    ClaimReturns(w, id) =>
      /\ reports[id].status = "PENDING"
      /\ reports'[id].status = "RUNNING"
      /\ reports'[id].lockedBy = Some(w)
      /\ reports'[id].lockedAt # Null
      /\ \A o \in ReportIds \ {id} : reports'[o] = reports[o]

\* the PENDING rows without a lease that no other open claim holds
FreeRows(w) ==
  { id \in ReportIds :
      /\ reports[id].status = "PENDING"
      /\ reports[id].lockedBy = Null
      /\ \A v \in Workers \ {w} :
           ~(pc[v] = "claimUpdate" /\ report[v].id = id) }

\* C7, the select: the row a claim selects is a PENDING row that no other
\* open claim holds
C7_SelectSkips ==
  \A w \in Workers :
    (pc[w] = "claimSelect" /\ pc'[w] = "claimUpdate") =>
      report'[w].id \in FreeRows(w)

\* C7, the progress: while such a row exists the query is not blocked and
\* returns a row, whatever rows other claims hold
C7_SelectProceeds ==
  \A w \in Workers :
    (pc[w] = "claimSelect" /\ FreeRows(w) # {}) =>
      ENABLED (ClaimSelect(w) /\ pc'[w] = "claimUpdate")

\* C7: claim transactions that overlap never return the same job; each
\* claim moves one job from PENDING to RUNNING under the claiming worker,
\* and a claim skips rows held by other claims and takes another eligible job
C7_ClaimsDisjoint ==
  /\ [](C7_DistinctRows /\ C7_SelectProceeds)
  /\ [][C7_ClaimMovesOne /\ C7_SelectSkips]_vars

\* a claim whose query runs while another open claim holds the oldest
\* eligible row, with a further eligible row to take
C7_Witness ==
  \E w \in Workers, v \in Workers :
    /\ w # v
    /\ pc[w] = "claimUpdate" /\ pc[v] = "claimSelect"
    /\ Eligible(reports[report[w].id])
    /\ FreeRows(v) # {}

\* C8: a RUNNING job has locked_at and locked_by set; a PENDING, COMPLETED
\* or FAILED job has both absent
C8_LeaseMatchesState ==
  \A id \in ReportIds :
    IF reports[id].status = "RUNNING"
      THEN reports[id].lockedAt # Null /\ reports[id].lockedBy # Null
      ELSE reports[id].lockedAt = Null /\ reports[id].lockedBy = Null

\* a job whose lease was reset by recovery under a worker that is still
\* inside its attempt, next to a job that is RUNNING
C8_Witness ==
  \E id \in ReportIds, o \in ReportIds, w \in Workers :
    /\ Attempting(w, id) /\ pc[w] = "generate"
    /\ reports[id].status = "PENDING"
    /\ reports[id].attempts = report[w].attempts
    /\ reports[o].status = "RUNNING"

\* C9 (as claimed): the attempts counter of a job never decreases
C9_AttemptsMonotone ==
  [][\A id \in ReportIds :
       reports'[id].attempts >= reports[id].attempts]_vars

\* job id exists and has an artifact row
HasArtifact(id) == id \in ReportIds /\ ArtifactsOf(id) # {}

\* job id exists and is COMPLETED
IsCompleted(id) == id \in ReportIds /\ reports[id].status = "COMPLETED"

\* C10 (as claimed): every job that has an artifact row eventually reaches
\* COMPLETED and stays there
C10_ArtifactLeadsToCompleted ==
  \A id \in 1..MaxReports : [](HasArtifact(id) => <>[]IsCompleted(id))

\* the edges of the job state machine
Edges ==
  { <<"PENDING", "RUNNING">>, <<"RUNNING", "COMPLETED">>,
    <<"RUNNING", "PENDING">>, <<"RUNNING", "FAILED">> }

\* C11 (as claimed): every change of a job's state is an edge of the state
\* machine: PENDING to RUNNING, RUNNING to COMPLETED, RUNNING to PENDING or
\* RUNNING to FAILED
C11_OnlyEdges ==
  [][\A id \in ReportIds :
       reports'[id].status # reports[id].status =>
         <<reports[id].status, reports'[id].status>> \in Edges]_vars

\* a job as a claim leaves it when the claiming worker process died right
\* after the commit: RUNNING under the lease of a worker that is gone
AbandonedRow ==
  [NewRow(DtoSeq[1], 1) EXCEPT !.status = "RUNNING", !.lockedAt = Some(Now),
                               !.lockedBy = Some("w1")]

\* one job, never claimed or abandoned in RUNNING; the workers are idle
InitRecovery ==
  /\ reports \in { << NewRow(DtoSeq[1], 1) >>, << AbandonedRow >> }
  /\ artifacts = <<>>
  /\ WorkersIdle
  /\ requests = <<>>

\* workers that keep ticking over a job whose first holder may be gone
FairRecoverySpec == InitRecovery /\ [][NextFair]_vars /\ Fairness

\* job id is RUNNING with a lease older than staleLockTimeoutMs
StaleRunning(id) == id \in ReportIds /\ IsStaleRunning(reports[id])

\* no worker is inside an attempt on job id
Abandoned(id) == \A w \in Workers : ~Attempting(w, id)

\* job id exists and is PENDING
IsPending(id) == id \in ReportIds /\ reports[id].status = "PENDING"

\* job id exists and is RUNNING
IsRunning(id) == id \in ReportIds /\ reports[id].status = "RUNNING"

\* C12 (as claimed): a job that is RUNNING with a lease older than the
\* timeout is eventually returned to PENDING
C12_StaleReturnsToPending ==
  \A id \in 1..MaxReports : [](StaleRunning(id) => <>IsPending(id))

\* C12 (amended): a RUNNING job with a stale lease that no worker is still
\* working on is eventually returned to PENDING; one that a worker is still
\* working on eventually leaves RUNNING, by recovery or by that worker's
\* final write
C12_StaleLeaseEnds ==
  \A id \in 1..MaxReports :
    /\ []((StaleRunning(id) /\ Abandoned(id)) => <>IsPending(id))
    /\ [](StaleRunning(id) => <>(~IsRunning(id)))

\* a recovery about to run over an abandoned job with a stale lease
C12_Witness ==
  \E id \in ReportIds, w \in Workers :
    StaleRunning(id) /\ Abandoned(id) /\ pc[w] = "recover"

\* C13: for every idempotency key stored on a job, exactly one job carries
\* it, never two
C13_KeyOnOneJob ==
  \A k \in Keys : Cardinality(RowsWithKey(k)) <= 1

\* a backfill was refused by the unique index: the key is on another job
C13_Witness ==
  \E r \in RequestIds :
    /\ requests[r].pc = "rereadDup"
    /\ Cardinality(RowsWithKey(Val(requests[r].key))) = 1
    /\ Val(requests[r].result).id \notin RowsWithKey(Val(requests[r].key))

\* the COMPLETED jobs with the body of submission r
CompletedLike(r) ==
  { id \in ReportIds :
      /\ reports[id].status = "COMPLETED"
      /\ DtoOf(mapToResponseDto(id)) = requests[r].dto }

\* the created flag a finished submission returned
Created(r) == Val(requests[r].response).created

\* C14 (as claimed): a submission whose body equals that of a COMPLETED job
\* returns that job with created=false and inserts no row, with no key or
\* with any key
C14_CompletedReused ==
  \A r \in Done :
    CompletedLike(r) # {} =>
      /\ Returned(r) \in CompletedLike(r)
      /\ ~Created(r)
      /\ requests[r].via # "insert"

\* the job a finished submission returned was read by the submission's key
ReturnedByKey(r) ==
  /\ requests[r].key # Null
  /\ Val(requests[r].response).result.idempotencyKey = requests[r].key

\* C14 (amended): the same, unless the key the submission carries is
\* stored on a job when the submission looks the key up (before or after
\* its semantic lookup); that job is then the job returned
C14_CompletedReusedUnlessKeyHit ==
  \A r \in Done :
    CompletedLike(r) # {} =>
      /\ Returned(r) \in CompletedLike(r) \/ ReturnedByKey(r)
      /\ ~Created(r)
      /\ requests[r].via # "insert"

\* a submission with a key of its own was answered with the COMPLETED job
\* of the same body, which carries another key
C14_Witness ==
  \E r \in Done :
    /\ requests[r].via = "semantic"
    /\ requests[r].key # Null
    /\ Returned(r) \in CompletedLike(r)
    /\ reports[Returned(r)].idempotencyKey \notin {Null, requests[r].key}

\* C15 (as claimed): once a job carries an idempotency key no later
\* submission changes that key
C15_KeyKept ==
  [][\A id \in ReportIds :
       reports[id].idempotencyKey # Null =>
         reports'[id].idempotencyKey = reports[id].idempotencyKey]_vars

\* the step in which worker w writes the outcome of an attempt that ran to
\* its end with a result of its own (success or failure)
WritesOutcome(w) ==
  /\ pc[w] \in {"markCompleted", "failUpdate"}
  /\ pc'[w] = "closeExecution"

\* C16 (as claimed): every attempt on a job that runs to an end, success or
\* failure, raises the job's attempts by exactly one
C16_AttemptsCountAttempts ==
  [][\A w \in Workers, id \in ReportIds :
       (Attempting(w, id) /\ WritesOutcome(w)) =>
         reports'[id].attempts = reports[id].attempts + 1]_vars

\* the store after a worker died between its artifact insert and its job
\* update: job 1 has its artifact row and is PENDING again (recovered) or
\* still RUNNING under the dead worker's lease; further jobs are PENDING
InitCrashed ==
  /\ \E n \in 1..MaxReports, recovered \in BOOLEAN :
       reports = [i \in 1..n |->
                    IF i > 1 THEN NewRow(DtoSeq[((i - 1) % Len(DtoSeq)) + 1], i)
                    ELSE IF recovered THEN NewRow(DtoSeq[1], 1) ELSE AbandonedRow]
  /\ artifacts = << [reportId |-> 1, contentType |-> ContentType(DtoSeq[1]),
                     content |-> "w1"] >>
  /\ WorkersIdle
  /\ requests = <<>>

\* the worker engine over a store left by a crash after the artifact insert
CrashedSpec == InitCrashed /\ [][NextWorker]_vars

\* the step in which worker w, the only worker inside an attempt on job id,
\* writes the job row at the end of its attempt
EndsAttemptAlone(w, id) ==
  /\ Attempting(w, id)
  /\ \A v \in Workers \ {w} : ~Attempting(v, id)
  /\ pc[w] \in {"markCompleted", "converge", "failUpdate"}
  /\ pc'[w] = "closeExecution"

\* C17 (as claimed): when a job already has its artifact row (a worker died
\* between the artifact insert and the job update), the next attempt on it
\* ends with the job COMPLETED and the one artifact row untouched
C17_RetryCompletes ==
  [][\A w \in Workers, id \in ReportIds :
       (EndsAttemptAlone(w, id) /\ ArtifactsOf(id) # {}) =>
         /\ reports'[id].status = "COMPLETED"
         /\ artifacts' = artifacts
         /\ Cardinality(ArtifactsOf(id)) = 1]_vars

\* the steps of worker w when the producer (generateReport) never fails
WorkerStepNoFail(w) ==
  \/ \E recover \in BOOLEAN : StartTick(w, recover) /\ UNCHANGED ticks
  \/ RecoverStaleLocks(w)
  \/ ClaimSelect(w)
  \/ ClaimUpdate(w)
  \/ CreateExecution(w)
  \/ GenerateReport(w, TRUE)
  \/ InsertArtifact(w)
  \/ MarkCompleted(w)
  \/ Converge(w)
  \/ CloseExecution(w)

NextNoFail ==
  \/ \E w \in Workers : WorkerStepNoFail(w)
  \/ Tick

\* every worker keeps ticking and time passes
FairnessNoFail ==
  /\ \A w \in Workers : WF_vars(WorkerStepNoFail(w))
  /\ WF_vars(Tick)

\* workers that never crash, with a producer that never fails, over a
\* store of PENDING jobs
FairNoFailSpec == InitWorkers /\ [][NextNoFail]_vars /\ FairnessNoFail

\* job id, if it exists, is COMPLETED with exactly one artifact row
CompletedWithOneArtifact(id) ==
  id \in ReportIds =>
    /\ reports[id].status = "COMPLETED"
    /\ Cardinality(ArtifactsOf(id)) = 1
    /\ ~IsStaleRunning(reports[id])

\* C18: from a store of PENDING jobs, with workers that tick fairly and a
\* producer that does not fail, every job eventually is COMPLETED with
\* exactly one artifact and stays so; none is left RUNNING under an expired
\* lease
C18_AllComplete ==
  \A id \in 1..MaxReports : <>[]CompletedWithOneArtifact(id)

\* two jobs, both COMPLETED with their artifact, when the last attempt has
\* just written its outcome
C18_Witness ==
  /\ Len(reports) >= 2
  /\ \A id \in ReportIds :
       reports[id].status = "COMPLETED" /\ Cardinality(ArtifactsOf(id)) = 1
  /\ \E w \in Workers : pc[w] = "closeExecution"
  /\ \A w \in Workers : pc[w] \in {"idle", "closeExecution"}

\* a RUNNING job whose lease is older than staleLockTimeoutMs and whose
\* holder is gone
StaleRow == [AbandonedRow EXCEPT !.lockedAt = Some(Oldest)]

\* a store that holds such a job as job 1, and PENDING jobs besides
InitStale ==
  /\ \E n \in 1..MaxReports :
       reports = [i \in 1..n |->
                    IF i = 1 THEN StaleRow
                    ELSE NewRow(DtoSeq[((i - 1) % Len(DtoSeq)) + 1], i)]
  /\ artifacts = <<>>
  /\ WorkersIdle
  /\ requests = <<>>

\* the worker engine over a store with a stale RUNNING job
StaleStoreSpec == InitStale /\ [][NextWorker]_vars

\* the step in which a call of processNextJob by w returns: no job to claim,
\* or the attempt is closed
TickEnds(w) ==
  /\ pc'[w] = "idle"
  /\ \/ pc[w] = "closeExecution"
     \/ pc[w] = "claimSelect" /\ Candidates(w) = {}

\* C19 (as claimed): over a store with a RUNNING job whose lease is stale,
\* after one worker tick that job is PENDING with both lease fields absent
\* and its attempts unchanged
C19_OneTickRecovers ==
  [][\A w \in Workers :
       (ticks = 1 /\ TickEnds(w)) =>
         /\ reports'[1].status = "PENDING"
         /\ reports'[1].lockedAt = Null
         /\ reports'[1].lockedBy = Null
         /\ reports'[1].attempts = StaleRow.attempts]_vars

\* the step in which recoverStaleLocks of worker w runs its updateMany
Recovers(w) == pc[w] = "recover" /\ pc'[w] = "claimSelect"

\* job id is RUNNING with locked_at before the cutoff now - staleLockTimeoutMs
BeforeCutoff(id) ==
  /\ reports[id].status = "RUNNING"
  /\ reports[id].lockedAt # Null
  /\ Val(reports[id].lockedAt) < Now - staleLockTimeoutMs

\* C20: one run of recoverStaleLocks sets every RUNNING job with locked_at
\* before the cutoff to PENDING with both lease fields absent and changes
\* nothing else of it; every other job and all artifact rows are unchanged
C20_RecoveryFrame ==
  [][\A w \in Workers :
       Recovers(w) =>
         /\ \A id \in ReportIds :
              IF BeforeCutoff(id)
                THEN reports'[id] = [reports[id] EXCEPT !.status = "PENDING",
                                       !.lockedAt = Null, !.lockedBy = Null]
                ELSE reports'[id] = reports[id]
         /\ artifacts' = artifacts]_vars

\* a recovery about to run over a job with a stale lease, a job with a
\* fresh lease, and an artifact row
C20_Witness ==
  \E w \in Workers, id \in ReportIds, o \in ReportIds :
    /\ pc[w] = "recover"
    /\ BeforeCutoff(id)
    /\ reports[o].status = "RUNNING" /\ ~BeforeCutoff(o)
    /\ artifacts # <<>>

\* the step in which worker w, whose attempt on job id failed, writes the
\* job row; the close of the execution row is the next await
WritesFailure(w, id) ==
  /\ Attempting(w, id)
  /\ pc[w] = "failUpdate"
  /\ pc'[w] = "closeExecution"

CreateExecutionFails(w) ==
  /\ pc[w] = "createExecution"
  /\ pc' = [pc EXCEPT ![w] = "idle"]
  /\ report' = [report EXCEPT ![w] = Null]
  /\ UNCHANGED <<reports, artifacts, ticks, requests, svc>>

\* reportArtifact.create throws an error other than P2002 on report_id:
\* rethrown to the failure path
InsertArtifactFails(w) ==
  /\ pc[w] = "insertArtifact"
  /\ pc' = [pc EXCEPT ![w] = "failUpdate"]
  /\ UNCHANGED <<reports, artifacts, report, ticks, requests, svc>>

\* the update to COMPLETED throws: rethrown to the failure path
MarkCompletedFails(w) ==
  /\ pc[w] = "markCompleted"
  /\ pc' = [pc EXCEPT ![w] = "failUpdate"]
  /\ UNCHANGED <<reports, artifacts, report, ticks, requests, svc>>

\* the update to COMPLETED goes through and the close of the execution row
\* after it throws: rethrown to the failure path
CompletedCloseFails(w) ==
  /\ pc[w] = "markCompleted"
  /\ ~LockedByOther(report[w].id, w)
  /\ reports' = [reports EXCEPT ![report[w].id] =
                   CompletedData(@, report[w].attempts)]
  /\ pc' = [pc EXCEPT ![w] = "failUpdate"]
  /\ UNCHANGED <<artifacts, report, ticks, requests, svc>>

\* the convergence update throws inside the inner catch: caught by the
\* failure path
ConvergeFails(w) ==
  /\ pc[w] = "converge"
  /\ pc' = [pc EXCEPT ![w] = "failUpdate"]
  /\ UNCHANGED <<reports, artifacts, report, ticks, requests, svc>>

\* the convergence update goes through and the close of the execution row
\* after it throws: caught by the failure path
ConvergedCloseFails(w) ==
  /\ pc[w] = "converge"
  /\ ~LockedByOther(report[w].id, w)
  /\ reports' = [reports EXCEPT ![report[w].id] = ConvergedData(@)]
  /\ pc' = [pc EXCEPT ![w] = "failUpdate"]
  /\ UNCHANGED <<artifacts, report, ticks, requests, svc>>

\* the update of the failure path throws: the outer catch logs and the tick
\* ends
FailUpdateFails(w) ==
  /\ pc[w] = "failUpdate"
  /\ pc' = [pc EXCEPT ![w] = "idle"]
  /\ report' = [report EXCEPT ![w] = Null]
  /\ UNCHANGED <<reports, artifacts, ticks, requests, svc>>

\* the update of the failure path goes through and the close of the
\* execution row after it throws: the outer catch logs and the tick ends
FailedCloseFails(w) ==
  /\ pc[w] = "failUpdate"
  /\ ~LockedByOther(report[w].id, w)
  /\ reports' = [reports EXCEPT ![report[w].id] =
                   FailedData(@, report[w].attempts)]
  /\ pc' = [pc EXCEPT ![w] = "idle"]
  /\ report' = [report EXCEPT ![w] = Null]
  /\ UNCHANGED <<artifacts, ticks, requests, svc>>

NextFaulty ==
  \/ \E w \in Workers, recover \in BOOLEAN : BeginTick(w, recover)
  \/ \E w \in Workers : RecoverStaleLocks(w)
  \/ \E w \in Workers : ClaimSelect(w)
  \/ \E w \in Workers : ClaimUpdate(w)
  \/ \E w \in Workers : CreateExecution(w)
  \/ \E w \in Workers : CreateExecutionFails(w)
  \/ \E w \in Workers, ok \in BOOLEAN : GenerateReport(w, ok)
  \/ \E w \in Workers : InsertArtifact(w)
  \/ \E w \in Workers : InsertArtifactFails(w)
  \/ \E w \in Workers : MarkCompleted(w)
  \/ \E w \in Workers : MarkCompletedFails(w)
  \/ \E w \in Workers : CompletedCloseFails(w)
  \/ \E w \in Workers : Converge(w)
  \/ \E w \in Workers : ConvergeFails(w)
  \/ \E w \in Workers : ConvergedCloseFails(w)
  \/ \E w \in Workers : FailUpdate(w)
  \/ \E w \in Workers : FailUpdateFails(w)
  \/ \E w \in Workers : FailedCloseFails(w)
  \/ \E w \in Workers : CloseExecution(w)
  \/ Tick

\* workers that do not die, over a store whose calls can throw
FaultySpec == InitWorkers /\ [][NextFaulty]_vars

\* the tick of worker w, which had claimed job id, ends and leaves the job
\* RUNNING under w's lease
LeftRunning(w, id) ==
  /\ Attempting(w, id)
  /\ pc'[w] = "idle"
  /\ reports'[id].status = "RUNNING"
  /\ reports'[id].lockedBy = Some(w)

\* worker w moves job id to COMPLETED and stands on the failure path after
\* that step
FailsAfterCompleted(w, id) ==
  /\ Attempting(w, id)
  /\ pc[w] \in {"markCompleted", "converge"}
  /\ reports[id].status # "COMPLETED"
  /\ reports'[id].status = "COMPLETED"
  /\ pc'[w] = "failUpdate"

\* C22 (as claimed): a store error that hits a worker after its claim is
\* handled as a failure of the attempt: the tick does not end with the job
\* left RUNNING under the worker's lease, and an attempt that has marked its
\* job COMPLETED does not enter the failure path
C22_StoreErrorIsFailure ==
  [][\A w \in Workers, id \in ReportIds :
       ~LeftRunning(w, id) /\ ~FailsAfterCompleted(w, id)]_vars

\* the jobs with the body (tenant, type, params) of submission r
SameBody(r) ==
  { id \in ReportIds : DtoOf(mapToResponseDto(id)) = requests[r].dto }

\* submission r carries no key and no job with its body is COMPLETED or
\* RUNNING
OnlyPendingLike(r) ==
  /\ requests[r].key = Null
  /\ \A id \in SameBody(r) : reports[id].status \notin {"COMPLETED", "RUNNING"}

\* C23, the result: a finished submission without key whose body matches no
\* COMPLETED or RUNNING job has inserted a PENDING job, returns it with
\* created=true, and no other such submission returns that job
C23_Inserted ==
  \A r \in Done :
    OnlyPendingLike(r) =>
      /\ requests[r].via = "insert"
      /\ Created(r)
      /\ Returned(r) \in SameBody(r)
      /\ Val(requests[r].response).result.status = "PENDING"
      /\ \A o \in Done \ {r} : OnlyPendingLike(o) => Returned(o) # Returned(r)

\* C23, the insert: the row such a submission inserts has an id that no job
\* had before, and the insert changes no other row
C23_InsertIsNew ==
  \A r \in RequestIds :
    (requests[r].pc = "insert" /\ requests'[r].pc # "insert") =>
      /\ Len(reports') = Len(reports) + 1
      /\ \A id \in ReportIds : reports'[id] = reports[id]
      /\ requests'[r].pc = "done" => Val(requests'[r].response).result.id \notin ReportIds

\* C23: a submission without key whose body matches only PENDING jobs (none
\* COMPLETED or RUNNING) inserts a new PENDING job, returns its id, which no
\* job had before, with created=true; k such submissions yield k jobs
C23_PendingNotReused ==
  /\ []C23_Inserted
  /\ [][C23_InsertIsNew]_vars

\* two finished submissions without key and with one body, each answered with
\* a job of its own
C23_Witness ==
  \E r1 \in Done, r2 \in Done :
    /\ r1 # r2
    /\ requests[r1].dto = requests[r2].dto
    /\ OnlyPendingLike(r1) /\ OnlyPendingLike(r2)
    /\ Returned(r1) # Returned(r2)
    /\ Cardinality(SameBody(r1)) >= 2

\* a store holding one job, submitted without key, that worker w1 has
\* claimed; w1 stands before generateReport
InitInFlight ==
  /\ reports = << AbandonedRow >>
  /\ artifacts = <<>>
  /\ pc = [w \in Workers |-> IF w = "w1" THEN "generate" ELSE "idle"]
  /\ report = [w \in Workers |->
                 IF w = "w1" THEN [id |-> 1, attempts |-> AbandonedRow.attempts]
                 ELSE Null]
  /\ ticks = 0
  /\ requests = <<>>
  /\ svc = [w \in Workers |-> Constructed]

\* the steps of an attempt from generateReport to its end
AttemptStep(w) ==
  \/ \E ok \in BOOLEAN : GenerateReport(w, ok)
  \/ InsertArtifact(w)
  \/ MarkCompleted(w)
  \/ FailUpdate(w)
  \/ CloseExecution(w)

NextInFlight ==
  \/ NextRequest
  \/ \E w \in Workers : AttemptStep(w)

\* submissions that interleave with an attempt in flight
InFlightSpec == InitInFlight /\ [][NextInFlight]_vars

\* the step in which submission r returns
Returns(r) == requests[r].pc # "done" /\ requests'[r].pc = "done"

\* the row submission r inserted, as its returning step knows it: the row
\* report.create returns, or the result kept over the key backfill
InsertedBy(r) ==
  IF requests[r].pc = "insert" THEN Len(reports) + 1
  ELSE Val(requests[r].result).id

\* submission r returns, in this step, the row it inserted
ReturnsOwnInsert(r) ==
  /\ requests'[r].via = "insert"
  /\ Val(requests'[r].response).result.id = InsertedBy(r)

\* C24 (as claimed): a submission reports created=true if and only if it
\* inserted the job row it returns, and created=false if and only if the job
\* it returns is one it found
C24_CreatedIffInserted ==
  [][\A r \in RequestIds :
       Returns(r) =>
         (Val(requests'[r].response).created <=> ReturnsOwnInsert(r))]_vars

\* a COMPLETED job of the first body that carries the first key: two
\* submissions of that body, one with each key, found it without key; the
\* one with the first key has set its key and returned
KeyedRow ==
  [NewRow(DtoSeq[1], 1) EXCEPT !.status = "COMPLETED", !.attempts = 1,
                               !.idempotencyKey = Some(KeySeq[1])]

\* the submission with the second key, which read the job before the first
\* key was set and stands before its own key update; seen: the jobs that
\* carried its key when it arrived
LateBackfill ==
  [key |-> Some(KeySeq[2]), dto |-> DtoSeq[1], pc |-> "backfill",
   existing |-> Some(1),
   result |-> Some([id |-> 1, tenantId |-> DtoSeq[1].tenantId,
                    type |-> DtoSeq[1].type, params |-> DtoSeq[1].params,
                    status |-> "COMPLETED", idempotencyKey |-> Null]),
   via |-> "semantic", response |-> Null, seen |-> {}]

InitKeyed ==
  /\ reports = << KeyedRow >>
  /\ artifacts = << [reportId |-> 1, contentType |-> ContentType(KeyedRow),
                     content |-> "w1"] >>
  /\ WorkersIdle
  /\ requests = << LateBackfill >>

\* a POST /reports arrives; seen records the jobs that carry its key at
\* that instant
SubmitSeeing(key, dto) ==
  /\ Len(requests) < MaxRequests
  /\ requests' = Append(requests,
       [seen |-> IF key = Null THEN {} ELSE RowsWithKey(Val(key))]
         @@ NewSubmission(key, dto))
  /\ UNCHANGED <<reports, artifacts, pc, report, ticks, svc>>

NextKeyed ==
  \/ \E key \in SubmitKeys, dto \in Dtos : SubmitSeeing(key, dto)
  \/ \E r \in RequestIds : FindByKey(r)
  \/ \E r \in RequestIds : SemanticQuery(r)
  \/ \E r \in RequestIds : SemanticFetch(r)
  \/ \E r \in RequestIds : InsertReport(r)
  \/ \E r \in RequestIds : Backfill(r)
  \/ \E r \in RequestIds : Refetch(r)
  \/ \E r \in RequestIds : RereadDup(r)

\* a submission that arrives while another one is about to set its key on
\* the job
KeyedSpec == InitKeyed /\ [][NextKeyed]_vars

\* C25, the answer: a finished submission whose key was on a job when it
\* arrived returns that job with created=false
C25_ReturnsKeyedJob ==
  \A r \in Done :
    requests[r].seen # {} =>
      /\ Returned(r) \in requests[r].seen
      /\ ~Created(r)

\* C25, the frame: no step of such a submission inserts a job row or changes
\* a field of a job
C25_WritesNothing ==
  \A r \in RequestIds :
    (requests[r].seen # {} /\ requests'[r] # requests[r]) => reports' = reports

\* C25 (as claimed): if a job carries key K when a submission with key K
\* starts, the submission returns that job with created=false, inserts no
\* job row and changes no field of any job, whatever its payload
C25_KeyHitReturnsJob ==
  /\ []C25_ReturnsKeyedJob
  /\ [][C25_WritesNothing]_vars

(* ------------------------------ the reads ------------------------------ *)

\* the states of a job
Statuses == {"PENDING", "RUNNING", "COMPLETED", "FAILED"}

\* getArtifact: report.artifacts[0], the first artifact row of the job
FirstArtifact(id) ==
  artifacts[CHOOSE i \in ArtifactsOf(id) : \A j \in ArtifactsOf(id) : i <= j]

\* variant: getArtifact serves the artifact whatever the state of the job
getArtifactAnyStatus(id) ==
  IF id \notin ReportIds \/ ArtifactsOf(id) = {}
    THEN [kind |-> "NotFound", content |-> Null, contentType |-> Null]
    ELSE [kind |-> "OK", content |-> Some(FirstArtifact(id).content),
          contentType |-> Some(FirstArtifact(id).contentType)]

\* ReportsService.getArtifact: findUnique with the artifacts, then the three
\* checks in the order of the code
getArtifact(id) ==
  IF id \notin ReportIds
    THEN [kind |-> "NotFound", content |-> Null, contentType |-> Null]
  ELSE IF reports[id].status # "COMPLETED"
    THEN [kind |-> "Conflict", content |-> Null, contentType |-> Null]
  ELSE IF ArtifactsOf(id) = {}
    THEN [kind |-> "NotFound", content |-> Null, contentType |-> Null]
  ELSE [kind |-> "OK", content |-> Some(FirstArtifact(id).content),
        contentType |-> Some(FirstArtifact(id).contentType)]

\* GET /reports/:id/artifact: the call and its answer
GetArtifact(id) ==
  /\ Len(requests) < MaxRequests
  /\ requests' = Append(requests,
       [op |-> "getArtifact", id |-> id, pc |-> "done",
        response |-> getArtifact(id)])
  /\ UNCHANGED <<reports, artifacts, pc, report, ticks, svc>>

\* a job row in state st, with a lease when RUNNING
RowInState(i, st) ==
  [NewRow(DtoSeq[((i - 1) % Len(DtoSeq)) + 1], i) EXCEPT
     !.status = st,
     !.lockedAt = IF st = "RUNNING" THEN Some(Now) ELSE Null,
     !.lockedBy = IF st = "RUNNING" THEN Some("w1") ELSE Null]

\* the artifact rows of the jobs in has, in the order of the job ids
RECURSIVE ArtifactRows(_, _)
ArtifactRows(has, n) ==
  IF n = 0 THEN <<>>
  ELSE IF n \in has
    THEN Append(ArtifactRows(has, n - 1),
                [reportId |-> n, contentType |-> ContentType(DtoSeq[((n - 1) % Len(DtoSeq)) + 1]),
                 content |-> "w1"])
    ELSE ArtifactRows(has, n - 1)

\* the inputs of getArtifact: a store of up to MaxReports jobs, each in any
\* state and with or without its artifact row
InitArtifactStore ==
  /\ \E n \in 0..MaxReports :
       \E st \in [1..n -> Statuses], has \in SUBSET (1..n) :
         /\ reports = [i \in 1..n |-> RowInState(i, st[i])]
         /\ artifacts = ArtifactRows(has, n)
  /\ WorkersIdle
  /\ requests = <<>>

NextArtifactRead == \E id \in 1..(MaxReports + 1) : GetArtifact(id)

\* calls of getArtifact over every store
ArtifactReadSpec == InitArtifactStore /\ [][NextArtifactRead]_vars

\* the answer of the call made in this step
Answer == requests'[Len(requests')].response

\* C26: getArtifact(id) fails NotFound when no job has that id, fails
\* Conflict when the job is not COMPLETED (with or without an artifact row),
\* fails NotFound when the job is COMPLETED without artifact row, otherwise
\* returns the artifact's content and content type; it changes no row
C26_GetArtifact ==
  [][\A id \in 1..(MaxReports + 1) :
       (Len(requests') = Len(requests) + 1 /\ requests'[Len(requests')].id = id) =>
         /\ reports' = reports /\ artifacts' = artifacts
         /\ id \notin ReportIds => Answer.kind = "NotFound"
         /\ (id \in ReportIds /\ reports[id].status # "COMPLETED") =>
              Answer.kind = "Conflict"
         /\ (id \in ReportIds /\ reports[id].status = "COMPLETED"
               /\ ~\E i \in 1..Len(artifacts) : artifacts[i].reportId = id) =>
              Answer.kind = "NotFound"
         /\ (id \in ReportIds /\ reports[id].status = "COMPLETED"
               /\ \E i \in 1..Len(artifacts) : artifacts[i].reportId = id) =>
              /\ Answer.kind = "OK"
              /\ \E i \in 1..Len(artifacts) :
                   /\ artifacts[i].reportId = id
                   /\ Answer.content = Some(artifacts[i].content)
                   /\ Answer.contentType = Some(artifacts[i].contentType)]_vars

\* a call answered Conflict for a job that has its artifact row, and a call
\* answered with the artifact
C26_Witness ==
  /\ \E r \in RequestIds :
       /\ requests[r].response.kind = "Conflict"
       /\ requests[r].id \in ReportIds
       /\ ArtifactsOf(requests[r].id) # {}
  /\ \E r \in RequestIds : requests[r].response.kind = "OK"

(* ------------------------ the worker's life cycle ---------------------- *)
(* svc[w] holds the fields isRunning and pollInterval (a timer handle is    *)
(* held or not), the interval timers that are set (timers), the calls of    *)
(* start() that await the initial recoverStaleLocks (starting), the calls   *)
(* of processNextJob made by the timer callback that have not settled       *)
(* (polls), the number of start() and stop() calls so far (calls) and the   *)
(* last of them (lastCall).  No time passes in these runs, so no lease      *)
(* turns stale and a job claimed by one call is written by that call alone: *)
(* the claim transaction is one step, and so is the attempt after it.       *)

\* s without its i-th element
Without(s, i) == SubSeq(s, 1, i - 1) \o SubSeq(s, i + 1, Len(s))

\* start(): returns at once when isRunning, else sets isRunning and awaits
\* recoverStaleLocks
Start(w) ==
  /\ svc[w].calls < MaxCalls
  /\ svc' = [svc EXCEPT ![w] =
       IF @.isRunning
         THEN [@ EXCEPT !.calls = @ + 1, !.lastCall = "start"]
         ELSE [@ EXCEPT !.calls = @ + 1, !.lastCall = "start",
                        !.isRunning = TRUE, !.starting = @ + 1]]
  /\ UNCHANGED <<reports, artifacts, pc, report, ticks, requests>>

\* start(): the awaited recoverStaleLocks has run; setInterval, the handle
\* is stored in pollInterval
StartResumes(w) ==
  /\ svc[w].starting > 0
  /\ reports' = [id \in ReportIds |->
                   IF IsStaleRunning(reports[id]) THEN RecoverData(reports[id])
                                                  ELSE reports[id]]
  /\ svc' = [svc EXCEPT ![w].starting = @ - 1, ![w].timers = @ + 1,
                        ![w].pollInterval = TRUE]
  /\ UNCHANGED <<artifacts, pc, report, ticks, requests>>

\* stop(): returns at once when not isRunning, else clears isRunning and
\* the timer whose handle pollInterval holds
Stop(w) ==
  /\ svc[w].calls < MaxCalls
  /\ svc' = [svc EXCEPT ![w] =
       IF ~@.isRunning
         THEN [@ EXCEPT !.calls = @ + 1, !.lastCall = "stop"]
         ELSE [@ EXCEPT !.calls = @ + 1, !.lastCall = "stop",
                        !.isRunning = FALSE,
                        !.timers = IF svc[w].pollInterval THEN @ - 1 ELSE @,
                        !.pollInterval = FALSE]]
  /\ UNCHANGED <<reports, artifacts, pc, report, ticks, requests>>

\* the setInterval callback: processNextJob is called; Math.random() < 0.1
\* decides whether it recovers before it claims
TimerFires(w, recover) ==
  /\ svc[w].timers > 0
  /\ ticks < MaxTicks
  /\ ticks' = ticks + 1
  /\ svc' = [svc EXCEPT ![w].polls =
       Append(@, [pos |-> IF recover THEN "recover" ELSE "claim",
                 id |-> 0, attempts |-> 0])]
  /\ UNCHANGED <<reports, artifacts, pc, report, requests>>

\* processNextJob of a timer call: recoverStaleLocks
PollRecovers(w, i) ==
  /\ svc[w].polls[i].pos = "recover"
  /\ reports' = [id \in ReportIds |->
                   IF IsStaleRunning(reports[id]) THEN RecoverData(reports[id])
                                                  ELSE reports[id]]
  /\ svc' = [svc EXCEPT ![w].polls[i].pos = "claim"]
  /\ UNCHANGED <<artifacts, pc, report, ticks, requests>>

\* processNextJob of a timer call: the claimNextJob transaction; without a
\* candidate the call returns
PollClaims(w, i) ==
  /\ svc[w].polls[i].pos = "claim"
  /\ IF Candidates(w) = {}
       THEN /\ svc' = [svc EXCEPT ![w].polls = Without(@, i)]
            /\ UNCHANGED reports
       ELSE \E id \in OldestCandidates(w) :
              /\ reports' = [reports EXCEPT ![id] = ClaimData(@, w)]
              /\ svc' = [svc EXCEPT ![w].polls[i] =
                   [pos |-> "execute", id |-> id,
                    attempts |-> reports[id].attempts]]
  /\ UNCHANGED <<artifacts, pc, report, ticks, requests>>

\* processNextJob of a timer call: the attempt on the claimed job, from the
\* execution row to the final update; the call settles
PollExecutes(w, i, ok) ==
  /\ svc[w].polls[i].pos = "execute"
  /\ LET id == svc[w].polls[i].id
         attempts == svc[w].polls[i].attempts
     IN IF ~ok
          THEN /\ reports' = [reports EXCEPT ![id] = FailedData(@, attempts)]
               /\ UNCHANGED artifacts
          ELSE IF ArtifactUniqueViolation(artifacts, id)
            THEN /\ reports' = [reports EXCEPT ![id] = ConvergedData(@)]
                 /\ UNCHANGED artifacts
            ELSE /\ artifacts' = Append(artifacts,
                      [reportId |-> id, contentType |-> ContentType(reports[id]),
                       content |-> w])
                 /\ reports' = [reports EXCEPT ![id] = CompletedData(@, attempts)]
  /\ svc' = [svc EXCEPT ![w].polls = Without(@, i)]
  /\ UNCHANGED <<pc, report, ticks, requests>>

NextLifecycle ==
  \/ \E w \in Workers : Start(w)
  \/ \E w \in Workers : StartResumes(w)
  \/ \E w \in Workers : Stop(w)
  \/ \E w \in Workers, recover \in BOOLEAN : TimerFires(w, recover)
  \/ \E w \in Workers : \E i \in 1..Len(svc[w].polls) : PollRecovers(w, i)
  \/ \E w \in Workers : \E i \in 1..Len(svc[w].polls) : PollClaims(w, i)
  \/ \E w \in Workers : \E i \in 1..Len(svc[w].polls), ok \in BOOLEAN :
       PollExecutes(w, i, ok)

\* workers that are started and stopped, over a store of PENDING jobs
LifecycleSpec == InitWorkers /\ [][NextLifecycle]_vars

\* the calls of processNextJob of worker w that hold a claimed job
AttemptsInProgress(w) ==
  { i \in 1..Len(svc[w].polls) : svc[w].polls[i].pos = "execute" }

\* C27, the state: a worker has at most one attempt in progress
C27_OneAttempt ==
  \A w \in Workers : Cardinality(AttemptsInProgress(w)) <= 1

\* C27, the tick: the timer begins no call of processNextJob while an
\* attempt of an earlier call is in progress
C27_NoTickInsideAttempt ==
  \A w \in Workers :
    Len(svc'[w].polls) > Len(svc[w].polls) => AttemptsInProgress(w) = {}

\* C27 (as claimed): within one started worker at most one claim/execute
\* attempt is in progress at any time, and a tick begins no claim while the
\* attempt of the tick before it has not finished
C27_OneAttemptPerWorker ==
  /\ []C27_OneAttempt
  /\ [][C27_NoTickInsideAttempt]_vars

\* stop() was called on worker w and start() was not called after it
Stopped(w) == svc[w].lastCall = "stop"

\* C28, the state: after stop() no poll timer of the worker remains set
C28_NoTimer ==
  \A w \in Workers : Stopped(w) => svc[w].timers = 0

\* C28, the tick: after stop() no call of processNextJob begins and no call
\* claims a job
C28_NoNewAttempt ==
  \A w \in Workers :
    Stopped(w) =>
      /\ Len(svc'[w].polls) <= Len(svc[w].polls)
      /\ Stopped(w)' => AttemptsInProgress(w)' \subseteq
                          { i \in 1..Len(svc'[w].polls) :
                              \E j \in AttemptsInProgress(w) :
                                svc'[w].polls[i] = svc[w].polls[j] }

\* C28 (as claimed): after stop() has been called on a worker and no later
\* start(), the worker's poll loop begins no further job attempt and no poll
\* timer remains set, also when stop() comes while start() awaits its
\* initial recovery; an attempt in flight may finish
C28_StopStops ==
  /\ []C28_NoTimer
  /\ [][C28_NoNewAttempt]_vars

(* Store errors inside a submission.  A store call of findOrCreateReport or *)
(* of ReportsService.create can throw an error that is not a uniqueness     *)
(* violation; the call that threw is kept in the field error.               *)

\* HttpExceptionFilter.catch: an exception that is no HttpException is
\* answered with status 500
ErrorResponse == Some([error |-> "INTERNAL_SERVER_ERROR"])

\* the caller got an error, not a result
IsError(response) == "error" \in DOMAIN Val(response)

\* a POST /reports arrives; no store call has thrown yet
SubmitFallible(key, dto) ==
  /\ Len(requests) < MaxRequests
  /\ requests' = Append(requests, [error |-> Null] @@ NewSubmission(key, dto))
  /\ UNCHANGED <<reports, artifacts, pc, report, ticks, svc>>

\* the store calls outside the try block of findOrCreateReport: the first
\* findReportByKey, the calls of businessCreateFn, and the findReportByKey
\* inside the catch
OutsideTry == {"findByKey", "semanticQuery", "semanticFetch", "insert", "rereadDup"}

\* the store calls inside the try block: the key update and the re-fetch
InsideTry == {"backfill", "refetch"}

\* a store call outside the try block throws: the error leaves
\* findOrCreateReport and reaches the filter
StoreErrorPropagates(r) ==
  /\ requests[r].pc \in OutsideTry
  /\ requests' = [requests EXCEPT ![r].error = Some(requests[r].pc),
                                  ![r].pc = "done",
                                  ![r].response = ErrorResponse]
  /\ UNCHANGED <<reports, artifacts, pc, report, ticks, svc>>

\* a store call inside the try block throws an error other than P2002 on
\* idempotency_key: the catch drops it and the result of businessCreateFn is
\* returned without key
StoreErrorSwallowed(r) ==
  /\ requests[r].pc \in InsideTry
  /\ LET res == Val(requests[r].result)
     IN requests' = [requests EXCEPT ![r].error = Some(requests[r].pc),
                                     ![r].pc = "done",
                                     ![r].existing = Null,
                                     ![r].result = Null,
                                     ![r].response =
                                       Respond(res, res.status = "PENDING")]
  /\ UNCHANGED <<reports, artifacts, pc, report, ticks, svc>>

NextFallible ==
  \/ \E key \in SubmitKeys, dto \in SubmitDtos : SubmitFallible(key, dto)
  \/ \E r \in RequestIds : FindByKey(r)
  \/ \E r \in RequestIds : SemanticQuery(r)
  \/ \E r \in RequestIds : SemanticFetch(r)
  \/ \E r \in RequestIds : InsertReport(r)
  \/ \E r \in RequestIds : Backfill(r)
  \/ \E r \in RequestIds : Refetch(r)
  \/ \E r \in RequestIds : RereadDup(r)
  \/ \E r \in RequestIds : StoreErrorPropagates(r)
  \/ \E r \in RequestIds : StoreErrorSwallowed(r)

\* concurrent submissions over a store whose calls can throw
FallibleSpec == InitStore /\ [][NextFallible]_vars

\* C29 (as claimed): a finished submission returns an error exactly when a
\* store call of it threw an error other than the uniqueness violation on
\* the idempotency key: that violation never surfaces, and every other store
\* error, the one of the key update included, reaches the caller as an error
C29_OnlyKeyConflictAbsorbed ==
  \A r \in Done :
    IsError(requests[r].response) <=> requests[r].error # Null

\* tenant ids
Tenants == {"t1", "t2"}

\* the status and type filters a list query can carry
StatusFilters == {Null, Some("PENDING")}
TypeFilters == {Null, Some(DtoSeq[1].type)}

\* findByTenant: the where of the findMany
ListMatches(tenantId, status, type, cursor) ==
  { id \in ReportIds :
      /\ reports[id].tenantId = tenantId
      /\ status # Null => reports[id].status = Val(status)
      /\ type # Null => reports[id].type = Val(type)
      /\ cursor # Null => id > Val(cursor) }

\* findByTenant: orderBy createdAt desc; rows with equal created_at come in
\* an order the store chooses
ListOrders(ids) ==
  { ord \in [1..Cardinality(ids) -> ids] :
      /\ \A i, j \in 1..Cardinality(ids) : i # j => ord[i] # ord[j]
      /\ \A i, j \in 1..Cardinality(ids) :
           i < j => reports[ord[i]].createdAt >= reports[ord[j]].createdAt }

\* findByTenant, after the findMany returned the rows of ord up to
\* limit + 1: the page and the cursor
ListPage(ord, limit) ==
  LET fetched == SubSeq(ord, 1, IF Len(ord) > limit + 1 THEN limit + 1 ELSE Len(ord))
      hasNext == Len(fetched) > limit
      results == IF hasNext THEN SubSeq(fetched, 1, limit) ELSE fetched
  IN [reports |-> results,
      nextCursor |-> IF hasNext THEN Some(results[Len(results)]) ELSE Null]

\* GET /tenants/:tenantId/reports: the call and its answer
FindByTenant(tenantId, status, type, limit, cursor) ==
  /\ Len(requests) < MaxRequests
  /\ \E ord \in ListOrders(ListMatches(tenantId, status, type, cursor)) :
       requests' = Append(requests,
         [op |-> "findByTenant", tenantId |-> tenantId, status |-> status,
          type |-> type, limit |-> limit, cursor |-> cursor, pc |-> "done",
          response |-> ListPage(ord, limit)])
  /\ UNCHANGED <<reports, artifacts, pc, report, ticks, svc>>

\* a job row of a tenant: PENDING as created, or COMPLETED
ListRow(tenantId, dto, st, createdAt) ==
  [NewRow(dto, createdAt) EXCEPT !.tenantId = tenantId, !.status = st,
     !.attempts = IF st = "COMPLETED" THEN 1 ELSE 0]

\* the inputs of findByTenant: a store of up to MaxReports jobs of two
\* tenants, created at one instant or at two
InitListStore ==
  /\ \E n \in 0..MaxReports :
       reports \in [1..n -> { ListRow(t, dto, st, c) :
                                t \in Tenants, dto \in Dtos,
                                st \in {"PENDING", "COMPLETED"}, c \in 1..2 }]
  /\ artifacts = <<>>
  /\ WorkersIdle
  /\ requests = <<>>

NextList ==
  \E tenantId \in Tenants, status \in StatusFilters, type \in TypeFilters,
     limit \in 1..MaxReports, cursor \in {Null} \cup { Some(id) : id \in ReportIds } :
    FindByTenant(tenantId, status, type, limit, cursor)

\* calls of findByTenant over every store
ListSpec == InitListStore /\ [][NextList]_vars

\* the page of list call r
Page(r) == requests[r].response.reports

\* row id passes the tenant, status and type of list call r
PassesFilters(r, id) ==
  /\ reports[id].tenantId = requests[r].tenantId
  /\ requests[r].status # Null => reports[id].status = Val(requests[r].status)
  /\ requests[r].type # Null => reports[id].type = Val(requests[r].type)

\* C30, the page: only jobs of the tenant that pass the filters, at most
\* limit of them, none twice, newest first
C30_PageSorted ==
  \A r \in RequestIds :
    /\ Len(Page(r)) <= requests[r].limit
    /\ \A i \in 1..Len(Page(r)) : PassesFilters(r, Page(r)[i])
    /\ \A i, j \in 1..Len(Page(r)) :
         i < j => /\ Page(r)[i] # Page(r)[j]
                  /\ reports[Page(r)[i]].createdAt >= reports[Page(r)[j]].createdAt

\* C30, the cursor: next_cursor is returned exactly when a job that the
\* query matches is not on the page
C30_CursorIffMore ==
  \A r \in RequestIds :
    requests[r].response.nextCursor # Null <=>
      \E id \in ReportIds :
        /\ PassesFilters(r, id)
        /\ requests[r].cursor # Null => id > Val(requests[r].cursor)
        /\ \A i \in 1..Len(Page(r)) : Page(r)[i] # id

\* C30, the ties: jobs with equal created_at come in the order of their ids,
\* the same way in every page
C30_TiesById ==
  \E up \in BOOLEAN :
    \A r \in RequestIds : \A i, j \in 1..Len(Page(r)) :
      (i < j /\ reports[Page(r)[i]].createdAt = reports[Page(r)[j]].createdAt) =>
        IF up THEN Page(r)[i] < Page(r)[j] ELSE Page(r)[i] > Page(r)[j]

\* C30 (as claimed): findByTenant returns only jobs of the tenant that match
\* the filters, at most limit, in created_at descending order with ties
\* broken by id, and returns next_cursor if and only if more matching jobs
\* remain after the page
C30_ListPage ==
  C30_PageSorted /\ C30_CursorIffMore /\ C30_TiesById

(* ------------------------ the race on one key -------------------------- *)

\* a COMPLETED job of the first body that carries no key
UnkeyedRow == [KeyedRow EXCEPT !.idempotencyKey = Null]

\* a submission of the first body with key k that missed the key lookup,
\* found job 1 in the semantic lookup while it carried no key, and stands
\* before its key update
FoundUnkeyed(k) ==
  [NewSubmission(Some(k), DtoSeq[1]) EXCEPT
     !.pc = "backfill", !.existing = Some(1), !.via = "semantic",
     !.result = Some([id |-> 1, tenantId |-> UnkeyedRow.tenantId,
                      type |-> UnkeyedRow.type, params |-> UnkeyedRow.params,
                      status |-> UnkeyedRow.status, idempotencyKey |-> Null])]

\* the store holds the unkeyed COMPLETED job; a submission with the second
\* key is about to set its key on it
InitRace ==
  /\ reports = << UnkeyedRow >>
  /\ artifacts = << [reportId |-> 1, contentType |-> ContentType(UnkeyedRow),
                     content |-> "w1"] >>
  /\ WorkersIdle
  /\ requests = << FoundUnkeyed(KeySeq[2]) >>

\* ReportsController.create: a POST /reports arrives next to the submission
\* that was in flight at the start
SubmitRacing(key, dto) ==
  /\ Len(requests) <= MaxRequests
  /\ requests' = Append(requests, NewSubmission(key, dto))
  /\ UNCHANGED <<reports, artifacts, pc, report, ticks, svc>>

NextRace ==
  \/ \E key \in SubmitKeys, dto \in Dtos : SubmitRacing(key, dto)
  \/ \E r \in RequestIds : FindByKey(r)
  \/ \E r \in RequestIds : SemanticQuery(r)
  \/ \E r \in RequestIds : SemanticFetch(r)
  \/ \E r \in RequestIds : InsertReport(r)
  \/ \E r \in RequestIds : Backfill(r)
  \/ \E r \in RequestIds : Refetch(r)
  \/ \E r \in RequestIds : RereadDup(r)

\* submissions racing on a key next to a submission with another key that
\* found the same job
RaceSpec == InitRace /\ [][NextRace]_vars

\* the step in which submission r, whose key update was refused by the
\* unique index, returns after its re-read by key
ReturnsAfterConflict(r) ==
  requests[r].pc = "rereadDup" /\ requests'[r].pc = "done"

\* C31 (as claimed): a submission whose key backfill hit the uniqueness
\* violation returns, with created=false, the job that carries its key, and
\* not the job it found or inserted itself
C31_ConflictReturnsKeyHolder ==
  [][\A r \in RequestIds :
       ReturnsAfterConflict(r) =>
         /\ ~Val(requests'[r].response).created
         /\ Val(requests'[r].response).result.id \in RowsWithKey(Val(requests[r].key))
         /\ Val(requests'[r].response).result.id # Val(requests[r].result).id]_vars

(* ------------------------- the semantic lookup ------------------------- *)

\* a job row of body dto in state st, with a lease when RUNNING and the
\* attempts the state implies
BodyRow(dto, st, createdAt) ==
  [NewRow(dto, createdAt) EXCEPT
     !.status = st,
     !.attempts = CASE st = "COMPLETED" -> 1 [] st = "FAILED" -> maxAttempts
                       [] OTHER -> 0,
     !.lockedAt = IF st = "RUNNING" THEN Some(Now) ELSE Null,
     !.lockedBy = IF st = "RUNNING" THEN Some("w1") ELSE Null]

\* the artifact rows of the COMPLETED jobs among the first n of rows
RECURSIVE CompletedArtifacts(_, _)
CompletedArtifacts(rows, n) ==
  IF n = 0 THEN <<>>
  ELSE IF rows[n].status = "COMPLETED"
    THEN Append(CompletedArtifacts(rows, n - 1),
                [reportId |-> n, contentType |-> ContentType(rows[n]),
                 content |-> "w1"])
    ELSE CompletedArtifacts(rows, n - 1)

\* created_at of row i of n: in the order of the ids, against it, or equal
CreatedAtOrders == {"up", "down", "tie"}
CreatedAtOf(order, i, n) ==
  CASE order = "up" -> i [] order = "down" -> n + 1 - i [] OTHER -> 1

\* the inputs of findExistingSemanticReport: a store of up to MaxReports
\* jobs, each of either body and in any state
InitLookupStore ==
  /\ \E n \in 0..MaxReports, order \in CreatedAtOrders :
       \E dto \in [1..n -> Dtos], st \in [1..n -> Statuses] :
         /\ reports = [i \in 1..n |-> BodyRow(dto[i], st[i], CreatedAtOf(order, i, n))]
         /\ artifacts = CompletedArtifacts(reports, n)
  /\ WorkersIdle
  /\ requests = <<>>

NextLookup ==
  \/ \E dto \in Dtos : Submit(Null, dto)
  \/ \E r \in RequestIds : SemanticQuery(r)
  \/ \E r \in RequestIds : SemanticFetch(r)
  \/ \E r \in RequestIds : InsertReport(r)

\* submissions without key over every store
LookupSpec == InitLookupStore /\ [][NextLookup]_vars

\* the jobs with the body of submission r that are COMPLETED, and that are
\* RUNNING
CompletedOfBody(r) == { id \in SameBody(r) : reports[id].status = "COMPLETED" }
RunningOfBody(r) == { id \in SameBody(r) : reports[id].status = "RUNNING" }

\* id is a job of set S with the greatest created_at of S
NewestOf(id, S) ==
  id \in S /\ \A o \in S : reports[id].createdAt >= reports[o].createdAt

InsertRefused(w, id) ==
  /\ pc[w] = "insertArtifact"
  /\ pc'[w] \in {"markCompleted", "converge"}
  /\ report[w].id = id
  /\ \E i \in 1..Len(artifacts) : artifacts[i].reportId = id

\* the step in which worker w writes job id after its insert was refused
WritesConverged(w, id) ==
  /\ pc[w] = "converge"
  /\ pc'[w] = "closeExecution"
  /\ report[w].id = id

NextDownload ==
  \/ NextWorker
  \/ \E id \in ReportIds : GetArtifact(id)

DownloadSpec == InitWorkers /\ [][NextDownload]_vars

\* C34, the rows: no step changes or removes an artifact row
C34_RowsKept ==
  \A i \in 1..Len(artifacts) :
    i <= Len(artifacts') /\ artifacts'[i] = artifacts[i]

\* C34, the download: a download that is answered with an artifact returns
\* the row that was inserted first for the job
C34_ServesFirst ==
  \A id \in ReportIds :
    (Len(requests') = Len(requests) + 1 /\ requests'[Len(requests')].id = id
       /\ Answer.kind = "OK") =>
      \A i \in 1..Len(artifacts) :
        (artifacts[i].reportId = id /\ \A j \in 1..(i - 1) : artifacts[j].reportId # id) =>
          /\ Answer.content = Some(artifacts[i].content)
          /\ Answer.contentType = Some(artifacts[i].contentType)

\* C34: once a job has an artifact row, no later worker step or request
\* changes or deletes it, and a download returns the artifact written by the
\* first successful insert
C34_ArtifactImmutable == [][C34_RowsKept /\ C34_ServesFirst]_vars

\* a job's artifact was downloaded and a second worker, whose insert for the
\* job was refused, is about to write the job
C34_Witness ==
  \E r \in RequestIds, w \in Workers :
    /\ requests[r].response.kind = "OK"
    /\ pc[w] = "converge"
    /\ report[w].id = requests[r].id
    /\ requests[r].response.content # Some(w)

(* ------------------------- the attempts counter ------------------------ *)

WritesJob(w, id) ==
  /\ pc[w] \in {"markCompleted", "converge", "failUpdate"}
  /\ pc'[w] = "closeExecution"
  /\ report[w].id = id

\* C36 (as claimed): a worker writes a job's state, attempts or lease only
\* while the job is RUNNING with locked_by equal to that worker
C36_WritesUnderLease ==
  [][\A w \in Workers, id \in ReportIds :
       WritesJob(w, id) =>
         /\ reports[id].status = "RUNNING"
         /\ reports[id].lockedBy = Some(w)]_vars

(* ------------------------ the rows of a submission --------------------- *)

\* the step in which submission r inserts a job row
Inserts(r) == requests[r].pc = "insert" /\ requests'[r].pc # "insert"

\* C37, the insert: a submission adds one row per insert and inserts once
C37_InsertsOnce ==
  \A r \in RequestIds :
    Inserts(r) => Len(reports') = Len(reports) + 1 /\ requests[r].via = "none"

\* C37, the answer: a submission that has inserted a row returns that row
\* with created=true
C37_ReturnsWhatItInserted ==
  \A r \in RequestIds :
    (Returns(r) /\ requests'[r].via = "insert") =>
      /\ Val(requests'[r].response).result.id = InsertedBy(r)
      /\ Val(requests'[r].response).created

\* C37 (as claimed): a submission inserts at most one job row, and inserts
\* one only if it returns that row; a submission that returns created=false
\* or a job other than the one it inserted has added no row
C37_InsertsOnlyWhatItReturns ==
  [][C37_InsertsOnce /\ C37_ReturnsWhatItInserted]_vars

(* --------------------------- the claims of a job ----------------------- *)

\* claimNextJob: the update and the commit, with the claim recorded in the
\* list of jobs the worker claimed; a worker records up to maxAttempts + 1
\* claims
ClaimRecorded(w) ==
  /\ pc[w] = "claimUpdate"
  /\ Len(svc[w].claimed) <= maxAttempts
  /\ reports' = [reports EXCEPT ![report[w].id] = ClaimData(@, w)]
  /\ pc' = [pc EXCEPT ![w] = "createExecution"]
  /\ svc' = [svc EXCEPT ![w].claimed = Append(@, report[w].id)]
  /\ UNCHANGED <<artifacts, report, ticks, requests>>

NextClaims ==
  \/ \E w \in Workers, recover \in BOOLEAN : StartTick(w, recover) /\ UNCHANGED ticks
  \/ \E w \in Workers : RecoverStaleLocks(w)
  \/ \E w \in Workers : ClaimSelect(w)
  \/ \E w \in Workers : ClaimRecorded(w)
  \/ \E w \in Workers : CreateExecution(w)
  \/ \E w \in Workers, ok \in BOOLEAN : GenerateReport(w, ok)
  \/ \E w \in Workers : InsertArtifact(w)
  \/ \E w \in Workers : MarkCompleted(w)
  \/ \E w \in Workers : Converge(w)
  \/ \E w \in Workers : FailUpdate(w)
  \/ \E w \in Workers : CloseExecution(w)
  \/ \E w \in Workers : Crash(w)
  \/ Tick

\* two workers that tick without limit over one submitted job, with crashes,
\* recoveries and time; every claim is recorded
ClaimsSpec == InitOneJob /\ [][NextClaims]_vars

\* the number of claims of job id so far
ClaimsOf(id) ==
  Cardinality({ c \in Workers \X (1..(maxAttempts + 1)) :
                  /\ c[2] <= Len(svc[c[1]].claimed)
                  /\ svc[c[1]].claimed[c[2]] = id })

\* C38 (as claimed): every job is claimed at most maxAttempts times over its
\* life, claims that end in a crash or in a stale-lease recovery included
C38_ClaimsBounded ==
  \A id \in ReportIds : ClaimsOf(id) <= maxAttempts

(* ------------------------------ termination ---------------------------- *)

\* the poll loops of the workers, with crashes
NextFairCrash ==
  \/ NextFair
  \/ \E w \in Workers : Crash(w)

\* at least one worker keeps ticking and its recovery trigger fires again
\* and again; a claim transaction that is open commits (or is rolled back by
\* a crash); time passes
OneWorkerTicks ==
  /\ \E v \in Workers :
       /\ WF_vars(WorkerStep(v))
       /\ SF_vars(StartTick(v, TRUE) /\ UNCHANGED ticks)
  /\ \A w \in Workers : WF_vars(ClaimUpdate(w))
  /\ WF_vars(Tick)

\* workers that may crash at any step and of which one keeps ticking, over
\* one submitted job; the producer may fail on any attempt
FairCrashSpec == InitOneJob /\ [][NextFairCrash]_vars /\ OneWorkerTicks

\* no worker crashes in this step: the step is one of a poll loop, or time
\* passing (a crash at the last await of a tick is the end of the tick)
NoCrash == NextFair

\* job id exists and is FAILED
IsFailed(id) == id \in ReportIds /\ reports[id].status = "FAILED"

\* C39: if workers crash only finitely often, at least one worker keeps
\* ticking and its recovery trigger fires infinitely often, every inserted
\* job eventually is COMPLETED for good or FAILED for good, whatever
\* attempts the producer fails on
C39_EventuallySettled ==
  (<>[][NoCrash]_vars) =>
    \A id \in 1..MaxReports :
      \/ <>[](id \notin ReportIds \/ IsCompleted(id))
      \/ <>[](id \notin ReportIds \/ IsFailed(id))

\* the worker of the job's last permitted attempt has crashed: the job is
\* RUNNING, no worker is working on it, one failure short of maxAttempts
C39_Witness ==
  \E id \in ReportIds :
    /\ reports[id].status = "RUNNING"
    /\ Abandoned(id)
    /\ reports[id].attempts = maxAttempts - 1

(* ------------------------------ pagination ----------------------------- *)

\* list call r2 continues list call r1: same tenant, filters and limit, and
\* its cursor is the next_cursor r1 returned
Continues(r1, r2) ==
  /\ requests[r1].response.nextCursor # Null
  /\ requests[r2].cursor = requests[r1].response.nextCursor
  /\ requests[r2].tenantId = requests[r1].tenantId
  /\ requests[r2].status = requests[r1].status
  /\ requests[r2].type = requests[r1].type
  /\ requests[r2].limit = requests[r1].limit

\* the pages of a walk that starts without cursor at call r1 and ends, after
\* one page or after two, with a page that returns no next_cursor
Walks ==
  { <<r1>> : r1 \in { r \in RequestIds :
                        /\ requests[r].cursor = Null
                        /\ requests[r].response.nextCursor = Null } }
  \cup
  { w \in RequestIds \X RequestIds :
      /\ requests[w[1]].cursor = Null
      /\ Continues(w[1], w[2])
      /\ requests[w[2]].response.nextCursor = Null }

\* the jobs a walk lists, in the order it lists them
Listed(w) ==
  IF Len(w) = 1 THEN Page(w[1]) ELSE Page(w[1]) \o Page(w[2])

\* C40 (as claimed): listing with findByTenant from no cursor and on with
\* each returned next_cursor until none is returned, over an unchanged
\* store, yields every job that matches the tenant and the filters exactly
\* once, in created_at descending order
C40_WalkListsAll ==
  \A w \in Walks :
    /\ \A id \in ReportIds :
         PassesFilters(w[1], id) =>
           Cardinality({ i \in 1..Len(Listed(w)) : Listed(w)[i] = id }) = 1
    /\ \A i, j \in 1..Len(Listed(w)) :
         i < j => reports[Listed(w)[i]].createdAt >= reports[Listed(w)[j]].createdAt

====
